---- MODULE Spec2Model ----
(***************************************************************************)
(* A model of qlearn's simulation management (simulation/management.py),   *)
(* setup resolution and stub signals (simulation/multisim.py) and the edge *)
(* detectors (core/generators.py).                                         *)
(*                                                                         *)
(* Strings that the code parses (storage keys) are sequences of one        *)
(* character strings, so that str.split and int() are computed.            *)
(***************************************************************************)
EXTENDS Integers, Sequences, FiniteSets, TLC

VARIABLES
    store,      \* the object store of the default host (host=None):
                \* key -> artifact (z_load / z_save / z_del)
    listing,    \* its stored keys in the order in which z_ls lists them
    remote,     \* the object store and the listing of the named host
    mgr,        \* the SimulationsManager, once constructed
    rd,         \* the SimulationRunData last returned by run_data()
    ret,        \* outcome of the last call: operation, status, value
    ops,        \* storage operations issued by the last call, in order
    nsave,      \* per key: saves issued by calc_performance(force_calc=False)
    sim,        \* setup resolution: the setup, the prefix, the resolved units
    edge,       \* crossup / crossdown: the series, the threshold, the crossings
    brk,        \* RangeBreakoutDetector: the bars and the events of _ohlc_breaks
    stub        \* start_stop_sigs: the data, start, stop and the stub series

repoVars == <<store, listing, remote, mgr, rd, ret, ops, nsave>>
pureVars == <<sim, edge, brk, stub>>
vars == <<store, listing, remote, mgr, rd, ret, ops, nsave, sim, edge, brk,
          stub>>

Idle == [phase |-> "idle"]

----------------------------------------------------------------------------
(* Bounds *)

MaxKeys == 3        \* stored keys in the index-construction specification
MaxRecs == 3        \* stored keys in the repository specification
MaxSave == 2        \* cap of the save counter nsave
MaxItems == 2       \* elements of a sequence or mapping of a setup
MaxLen == 3         \* samples of a series given to crossup / crossdown
MaxBars == 2        \* bars of the frame given to RangeBreakoutDetector
MaxRows == 205      \* rows of the market data given to get_signals
MaxHostRecs == 2    \* stored keys per host in the host specification

----------------------------------------------------------------------------
(* Strings *)

SL == "/"
DOT == "."
Digits == {"0", "1", "2", "3", "4", "5", "6", "7", "8", "9"}

DigitVal(c) ==
    CASE c = "0" -> 0 [] c = "1" -> 1 [] c = "2" -> 2 [] c = "3" -> 3
      [] c = "4" -> 4 [] c = "5" -> 5 [] c = "6" -> 6 [] c = "7" -> 7
      [] c = "8" -> 8 [] c = "9" -> 9

\* str.split(sep): the pieces between the separators, empty pieces kept
RECURSIVE Split(_, _)
Split(s, sep) ==
    IF \A i \in 1..Len(s) : s[i] # sep
    THEN <<s>>
    ELSE LET i == CHOOSE j \in 1..Len(s) :
                      s[j] = sep /\ \A h \in 1..(j - 1) : s[h] # sep
         IN  <<SubSeq(s, 1, i - 1)>> \o Split(SubSeq(s, i + 1, Len(s)), sep)

\* int(s) succeeds on a non-empty string of decimal digits
IsInt(s) == Len(s) > 0 /\ \A i \in 1..Len(s) : s[i] \in Digits

RECURSIVE IntOf(_)
IntOf(s) ==
    IF Len(s) = 0 THEN 0
    ELSE 10 * IntOf(SubSeq(s, 1, Len(s) - 1)) + DigitVal(s[Len(s)])

RECURSIVE Join(_, _)
Join(parts, sep) ==
    IF Len(parts) = 0 THEN <<>>
    ELSE IF Len(parts) = 1 THEN parts[1]
    ELSE parts[1] \o <<sep>> \o Join(Tail(parts), sep)

RUNS == <<"r", "u", "n", "s">>

----------------------------------------------------------------------------
(* Storage keys *)

Projects == {<<"p">>, <<"q">>}
RunIds == {<<"r">>, <<"s">>}
TaskName == <<"t">>
SymX == <<"X">>
SymY == <<"Y">>

\* the task id of a stored simulation: {task}.{sequence_index}.{symbol}
TaskId(k, sym) == Join(<<TaskName, k, sym>>, DOT)

\* the key load() reads: runs/{prj}/{t_id}/{run_id}
LoadPath(prj, t_id, run_id) == Join(<<RUNS, prj, t_id, run_id>>, SL)

\* the key layout of the storage interface as documented:
\* runs/{project}/{run_id}/{sequence_index}.{symbol}
DocPath(prj, run_id, k, sym) ==
    Join(<<RUNS, prj, run_id, Join(<<k, sym>>, DOT)>>, SL)

\* (sequence_index, symbol) of the stored simulations; "02" and "2" are the
\* same integer
IndexTasks == {<<<<"2">>, SymX>>, <<<<"1", "0">>, SymX>>, <<<<"0", "2">>, SymY>>}

CodeKeys ==
    {LoadPath(p, TaskId(t[1], t[2]), r) :
        p \in Projects, r \in RunIds, t \in IndexTasks}

DocKeys ==
    {DocPath(p, r, t[1], t[2]) :
        p \in Projects, r \in RunIds, t \in IndexTasks}

\* the stored simulations of the repository specification
RepoKeys ==
    {LoadPath(<<"p">>, TaskId(<<"2">>, SymX), <<"r">>),
     LoadPath(<<"p">>, TaskId(<<"1", "0">>, SymX), <<"r">>),
     LoadPath(<<"p">>, TaskId(<<"1">>, SymY), <<"r">>),
     LoadPath(<<"q">>, TaskId(<<"0">>, SymX), <<"s">>)}

----------------------------------------------------------------------------
(* The index: project -> run_id -> {sequence_index: record}, as ordered    *)
(* dicts: sequences of entries in insertion order.                         *)

HasKey(d, key) == \E i \in 1..Len(d) : d[i].key = key
Pos(d, key) == CHOOSE i \in 1..Len(d) : d[i].key = key
Get(d, key) == d[Pos(d, key)].val
Keys(d) == [i \in 1..Len(d) |-> d[i].key]

\* d[key] = val: in place when the key exists, appended otherwise
SetItem(d, key, val) ==
    IF HasKey(d, key)
    THEN [d EXCEPT ![Pos(d, key)] = [key |-> key, val |-> val]]
    ELSE Append(d, [key |-> key, val |-> val])

\* d[key] of a defaultdict: a missing key is inserted with the default
Touch(d, key, default) ==
    IF HasKey(d, key) THEN d ELSE Append(d, [key |-> key, val |-> default])

\* sorted(ra.items(), key=lambda kv: kv[0]): ascending by integer key
SortedNoop(d) == d

RECURSIVE SortedItems(_)
SortedItems(d) ==
    IF Len(d) = 0 THEN <<>>
    ELSE LET m == CHOOSE i \in 1..Len(d) :
                      /\ \A j \in 1..Len(d) : d[i].key <= d[j].key
                      /\ \A j \in 1..(i - 1) : d[j].key # d[i].key
             rest == [j \in 1..(Len(d) - 1) |-> IF j < m THEN d[j] ELSE d[j + 1]]
         IN  <<d[m]>> \o SortedItems(rest)

Failed(err) == [ok |-> FALSE, err |-> err, idx |-> <<>>]

\* the loop of _collect_data over the listed keys
RECURSIVE CollectFrom(_, _)
CollectFrom(recs, idx) ==
    IF Len(recs) = 0 THEN [ok |-> TRUE, err |-> "none", idx |-> idx]
    ELSE
    LET s0 == Head(recs)
        row == Tail(Split(s0, SL)) \o <<s0>>
    IN  IF Len(row) # 4 THEN Failed("ValueError")
        ELSE
        LET p == row[1]
            s == row[2]
            r == row[3]
            path == row[4]
            sinf == Split(s, DOT)
            withP == Touch(idx, p, <<>>)
            withR == Touch(Get(withP, p), r, <<>>)
            ra == Get(withR, r)
        IN  IF Len(sinf) < 2 THEN Failed("IndexError")
            ELSE IF ~IsInt(sinf[2]) THEN Failed("ValueError")
            ELSE IF Len(sinf) < 3 THEN Failed("IndexError")
            ELSE
            LET k == IntOf(sinf[2])
                rec == [runid |-> r, symbol |-> sinf[3], path |-> path]
                ra2 == SortedItems(SetItem(ra, k, rec))
            IN  CollectFrom(Tail(recs),
                            SetItem(withP, p, SetItem(withR, r, ra2)))

CollectData(recs) == CollectFrom(recs, <<>>)

----------------------------------------------------------------------------
(* Stored artifacts and the storage collaborator *)

Sharpes == {-1, 0, 1}
Tasks == {"A", "B"}
Perf(v) == [has |-> TRUE, sharpe |-> v]

NoPerf == [has |-> FALSE, sharpe |-> 0]
NullArt == [null |-> TRUE, task |-> "none",
            result |-> [raises |-> FALSE, sharpe |-> 0], performance |-> NoPerf]

\* the backtest result of an artifact: performance() either raises or
\* yields the metrics, of which the sharpe ratio is kept
Results ==
    {[raises |-> TRUE, sharpe |-> 0]} \cup
    {[raises |-> FALSE, sharpe |-> v] : v \in Sharpes}

Art(task, result, performance) ==
    [null |-> FALSE, task |-> task, result |-> result,
     performance |-> performance]

\* artifacts as a simulation stores them: no performance summary yet
FreshArts(tasks, results) ==
    {Art(t, r, NoPerf) : t \in tasks, r \in results}

\* artifacts that an earlier calc_performance saved
DoneArts(tasks) ==
    {Art(t, [raises |-> FALSE, sharpe |-> v], Perf(v)) :
        t \in tasks, v \in Sharpes}

\* z_load(path)['data']: the stored artifact, None when nothing is stored
ZLoad(st, path) == IF path \in DOMAIN st THEN st[path] ELSE NullArt

\* z_save(path, sd)
ZSave(st, path, sd) ==
    [k \in DOMAIN st \cup {path} |-> IF k = path THEN sd ELSE st[k]]

\* z_del(path)
ZDel(st, path) == [k \in DOMAIN st \ {path} |-> st[k]]

\* z_ls('runs/') after the store changed: the keys still stored
ZLs(ls, st) == SelectSeq(ls, LAMBDA k : k \in DOMAIN st)

\* the orders in which z_ls can list the keys
Listings(keys) ==
    {f \in [1..Cardinality(keys) -> keys] :
        \A i, j \in 1..Cardinality(keys) : i # j => f[i] # f[j]}

Op(name, path) == [op |-> name, path |-> path]

\* the host argument of the storage calls: None, the default, or a name
HostNone == "None"
HostH == "H"
Hosts == {HostNone, HostH}

NoRemote == [store |-> <<>>, listing |-> <<>>]

\* the store and the listing that a call with host=h reaches
StoreAt(h) == IF h = HostNone THEN store ELSE remote.store
ListingAt(h) == IF h = HostNone THEN listing ELSE remote.listing

\* the store of host h after a call changed it to st
SetStore(h, st) ==
    IF h = HostNone
    THEN /\ store' = st
         /\ listing' = ZLs(listing, st)
         /\ UNCHANGED remote
    ELSE /\ remote' = [store |-> st, listing |-> ZLs(remote.listing, st)]
         /\ UNCHANGED <<store, listing>>

\* the calls of one method, each with the host it was given
OnHost(log, h) ==
    [i \in 1..Len(log) |-> [op |-> log[i].op, path |-> log[i].path, host |-> h]]

----------------------------------------------------------------------------
(* SimulationsManager *)

NoMgr == [made |-> FALSE, host |-> HostNone, p |-> <<>>]
NoRd == [made |-> FALSE, prj |-> <<>>, run_id |-> <<>>, p |-> <<>>,
         isList |-> FALSE, host |-> HostNone]
\* the outcome of a call: the names a lookup lists, the results, the rows of
\* a report, and the force_calc the call was given
Ret(op, status) ==
    [op |-> op, status |-> status, force |-> FALSE, names |-> <<>>,
     results |-> <<>>, rows |-> <<>>]

\* SimulationsManager(host): __init__ and _collect_data
Construct(host) ==
    LET c == CollectData(ListingAt(host))
    IN  /\ IF c.ok
           THEN /\ mgr' = [made |-> TRUE, host |-> host, p |-> c.idx]
                /\ rd' = NoRd
                /\ ret' = Ret("construct", "ok")
           ELSE /\ ret' = Ret("construct", c.err)
                /\ UNCHANGED <<mgr, rd>>
        /\ ops' = OnHost(<<Op("ls", RUNS \o <<SL>>)>>, host)
        /\ UNCHANGED <<store, listing, remote, nsave, pureVars>>

\* projects()
ListProjects ==
    /\ mgr.made
    /\ ret' = [Ret("projects", "ok") EXCEPT !.names = Keys(mgr.p)]
    /\ ops' = <<>>
    /\ UNCHANGED <<store, listing, remote, mgr, rd, nsave, pureVars>>

ProjectArgs == Projects \cup {<<"z">>}
LookupArgs == {<<"p">>, <<"z">>}

\* self.p[prj] of runs_for: self.p is a defaultdict
RunsForIndex(p, prj) == Touch(p, prj, <<>>)

\* runs_for(prj)
RunsFor(prj) ==
    /\ mgr.made
    /\ LET p2 == RunsForIndex(mgr.p, prj)
       IN  /\ mgr' = [mgr EXCEPT !.p = p2]
           /\ ret' = [Ret("runs_for", "ok") EXCEPT !.names = Keys(Get(p2, prj))]
    /\ ops' = <<>>
    /\ UNCHANGED <<store, listing, remote, rd, nsave, pureVars>>

\* the host of SimulationRunData(prj, run_id, self.p[prj].get(run_id)): the
\* manager's host is not passed on, so it is the default of __init__
RunDataHost(mgr_host) == HostNone

\* run_data(prj, run_id)
RunData(prj, run_id) ==
    /\ mgr.made
    /\ IF ~HasKey(mgr.p, prj) \/ ~HasKey(Get(mgr.p, prj), run_id)
       THEN /\ ret' = Ret("run_data", "ValueError")
            /\ rd' = rd
       ELSE /\ ret' = Ret("run_data", "ok")
            /\ rd' = [made |-> TRUE, prj |-> prj, run_id |-> run_id,
                      p |-> Get(Get(mgr.p, prj), run_id), isList |-> FALSE,
                      host |-> RunDataHost(mgr.host)]
    /\ ops' = <<>>
    /\ UNCHANGED <<store, listing, remote, mgr, nsave, pureVars>>

----------------------------------------------------------------------------
(* SimulationRunData *)

\* results(): the result of every record whose artifact is truthy
RECURSIVE ResultsFrom(_, _, _, _)
ResultsFrom(recs, st, simres, log) ==
    IF Len(recs) = 0 THEN [val |-> simres, ops |-> log]
    ELSE LET path == Head(recs).val.path
             sd == ZLoad(st, path)
             log1 == Append(log, Op("load", path))
         IN  ResultsFrom(Tail(recs), st,
                         IF sd.null THEN simres ELSE Append(simres, sd.result),
                         log1)

\* force_calc or 'performance' not in dir(sd)
NeedsCalcAlways(force_calc, sd) == TRUE

NeedsCalc(force_calc, sd) == force_calc \/ ~sd.performance.has

\* the except clause of calc_performance: the failure is printed and the
\* loop goes on
OnExceptionRaise(st, log, path) ==
    [store |-> st, ops |-> Append(log, Op("exc", path)), raised |-> TRUE]

OnException(st, log, path) ==
    [store |-> st, ops |-> Append(log, Op("exc", path)), raised |-> FALSE]

\* the body of the loop of calc_performance for one record
CalcRecord(st, log, path, force_calc) ==
    LET sd == ZLoad(st, path)
        log1 == Append(log, Op("load", path))
    IN  IF sd.null \/ ~NeedsCalc(force_calc, sd)
        THEN [store |-> st, ops |-> log1, raised |-> FALSE]
        ELSE IF sd.result.raises
        THEN OnException(st, Append(log1, Op("perf", path)), path)
        ELSE LET sd2 == [sd EXCEPT !.performance =
                            [has |-> TRUE, sharpe |-> sd.result.sharpe]]
             IN  [store |-> ZSave(st, path, sd2),
                  ops |-> log1 \o <<Op("perf", path), Op("save", path)>>,
                  raised |-> FALSE]

RECURSIVE CalcFrom(_, _, _, _)
CalcFrom(recs, st, log, force_calc) ==
    IF Len(recs) = 0 THEN [store |-> st, ops |-> log, raised |-> FALSE]
    ELSE LET one == CalcRecord(st, log, Head(recs).val.path, force_calc)
         IN  IF one.raised THEN one
             ELSE CalcFrom(Tail(recs), one.store, one.ops, force_calc)

Saved(log) == {log[i].path : i \in {j \in 1..Len(log) : log[j].op = "save"}}

Bump(n) == IF n < MaxSave THEN n + 1 ELSE MaxSave

\* calc_performance(init_cash, commissions, force_calc)
CalcPerformance(force_calc) ==
    /\ rd.made
    /\ IF rd.isList
       THEN /\ ret' = [Ret("calc_performance", "AttributeError")
                          EXCEPT !.force = force_calc]
            /\ ops' = <<>>
            /\ UNCHANGED <<store, listing, remote, nsave>>
       ELSE LET c == CalcFrom(rd.p, StoreAt(rd.host), <<>>, force_calc)
            IN  /\ SetStore(rd.host, c.store)
                /\ ops' = OnHost(c.ops, rd.host)
                /\ ret' = [Ret("calc_performance",
                                  IF c.raised THEN "Exception" ELSE "ok")
                              EXCEPT !.force = force_calc]
                /\ nsave' = [k \in DOMAIN nsave |->
                                IF ~force_calc /\ k \in Saved(c.ops)
                                THEN Bump(nsave[k]) ELSE nsave[k]]
    /\ UNCHANGED <<mgr, rd, pureVars>>

\* the loop of comparison_report: report[sd.task] = {...}
RECURSIVE ReportFrom(_, _, _, _)
ReportFrom(recs, st, report, log) ==
    IF Len(recs) = 0 THEN [val |-> report, ops |-> log]
    ELSE LET path == Head(recs).val.path
             sd == ZLoad(st, path)
             log1 == Append(log, Op("load", path))
         IN  ReportFrom(Tail(recs), st,
                        IF sd.null \/ ~sd.performance.has THEN report
                        ELSE SetItem(report, sd.task,
                                     [sharpe |-> sd.performance.sharpe]),
                        log1)

\* sort_values('sharpe', ascending=False): the orders of the rows that are
\* descending in sharpe (the order of equal rows is the sort's choice)
SortValues(rows) ==
    {[i \in 1..Len(rows) |-> rows[f[i]]] :
        f \in {g \in Listings(1..Len(rows)) :
                  \A i, j \in 1..Len(rows) :
                      i < j => rows[g[i]].val.sharpe >= rows[g[j]].val.sharpe}}

\* comparison_report(): an empty frame has no 'sharpe' column to sort by
ComparisonReport ==
    /\ rd.made
    /\ IF rd.isList
       THEN /\ ret' = Ret("comparison_report", "AttributeError")
            /\ ops' = <<>>
       ELSE LET c == ReportFrom(rd.p, StoreAt(rd.host), <<>>, <<>>)
            IN  /\ ops' = OnHost(c.ops, rd.host)
                /\ IF Len(c.val) = 0
                   THEN ret' = Ret("comparison_report", "KeyError")
                   ELSE \E rows \in SortValues(c.val) :
                            ret' = [Ret("comparison_report", "ok")
                                    EXCEPT !.rows = rows]
    /\ UNCHANGED <<store, listing, remote, mgr, rd, nsave, pureVars>>

\* results()
GetResults ==
    /\ rd.made
    /\ IF rd.isList
       THEN /\ ret' = Ret("results", "AttributeError")
            /\ ops' = <<>>
       ELSE LET c == ResultsFrom(rd.p, StoreAt(rd.host), <<>>, <<>>)
            IN  /\ ops' = OnHost(c.ops, rd.host)
                /\ ret' = [Ret("results", "ok") EXCEPT !.results = c.val]
    /\ UNCHANGED <<store, listing, remote, mgr, rd, nsave, pureVars>>

RECURSIVE DeleteFrom(_, _, _)
DeleteFrom(recs, st, log) ==
    IF Len(recs) = 0 THEN [store |-> st, ops |-> log]
    ELSE LET path == Head(recs).val.path
         IN  DeleteFrom(Tail(recs), ZDel(st, path), Append(log, Op("del", path)))

\* what delete() does to the manager's index: nothing, it rebinds its own p
DeleteIndex(p, prj, run_id) == p

\* the host of z_del(r.path) in delete(): no host is given, so the default
DeleteHost(self_host) == HostNone

\* delete()
Delete ==
    /\ rd.made
    /\ IF rd.isList
       THEN /\ ret' = Ret("delete", "AttributeError")
            /\ ops' = <<>>
            /\ UNCHANGED <<store, listing, remote, rd, mgr>>
       ELSE LET h == DeleteHost(rd.host)
                c == DeleteFrom(rd.p, StoreAt(h), <<>>)
            IN  /\ SetStore(h, c.store)
                /\ ops' = OnHost(c.ops, h)
                /\ rd' = [rd EXCEPT !.p = <<>>, !.isList = TRUE]
                /\ mgr' = [mgr EXCEPT !.p = DeleteIndex(mgr.p, rd.prj, rd.run_id)]
                /\ ret' = Ret("delete", "ok")
    /\ UNCHANGED <<nsave, pureVars>>

----------------------------------------------------------------------------------------------------------------------------------------------
(* The repository specification *)

Stores(keys, n, arts) ==
    UNION {[ks -> arts] : ks \in {k \in SUBSET keys : Cardinality(k) <= n}}

InitPure ==
    /\ sim = Idle
    /\ edge = Idle
    /\ brk = Idle
    /\ stub = Idle

InitRepo(stores) ==
    /\ store \in stores
    /\ mgr = NoMgr
    /\ rd = NoRd
    /\ ret = Ret("init", "ok")
    /\ ops = <<>>
    /\ nsave = [k \in DOMAIN store |-> 0]
    /\ InitPure

\* artifacts whose performance() raises or yields one sharpe value
MainArts ==
    FreshArts({"A"}, {[raises |-> TRUE, sharpe |-> 0],
                      [raises |-> FALSE, sharpe |-> 1]}) \cup {NullArt}

Init ==
    /\ InitRepo(Stores(RepoKeys, MaxRecs, MainArts))
    /\ remote = NoRemote
    /\ listing = CHOOSE ls \in Listings(DOMAIN store) : TRUE

Next ==
    \/ Construct(HostNone)
    \/ ListProjects
    \/ \E prj \in LookupArgs : RunsFor(prj)
    \/ \E prj \in ProjectArgs, run_id \in RunIds : RunData(prj, run_id)
    \/ GetResults
    \/ \E force_calc \in BOOLEAN : CalcPerformance(force_calc)
    \/ ComparisonReport
    \/ Delete

Spec == Init /\ [][Next]_vars

\* The comparison report over stores that hold artifacts with and without
\* a performance summary, of several tasks and sharpe values
ReportArts ==
    FreshArts(Tasks, {[raises |-> FALSE, sharpe |-> 0]})
        \cup DoneArts(Tasks) \cup {NullArt}

InitReport ==
    /\ InitRepo(Stores(RepoKeys, MaxRecs, ReportArts))
    /\ remote = NoRemote
    /\ listing = CHOOSE ls \in Listings(DOMAIN store) : TRUE

NextReport ==
    \/ Construct(HostNone)
    \/ \E prj \in Projects, run_id \in RunIds : RunData(prj, run_id)
    \/ ComparisonReport

SpecReport == InitReport /\ [][NextReport]_vars

\* Index construction over stores whose keys are all of the layout load()
\* reads, or all of the documented layout, listed in any order
StoredArt == Art("A", [raises |-> FALSE, sharpe |-> 0], NoPerf)

InitIndex ==
    /\ InitRepo(Stores(CodeKeys, MaxKeys, {StoredArt})
                  \cup Stores(DocKeys, MaxKeys, {StoredArt}))
    /\ listing \in Listings(DOMAIN store)
    /\ remote = NoRemote

NextIndex ==
    \/ Construct(HostNone)
    \/ ListProjects
    \/ \E prj \in Projects : RunsFor(prj)

SpecIndex == InitIndex /\ [][NextIndex]_vars

\* Managers of either host: the default host and the named host each hold
\* their own keys
HostArts == FreshArts({"A"}, {[raises |-> FALSE, sharpe |-> 1]})

InitHost ==
    /\ InitRepo(Stores(RepoKeys, MaxHostRecs, HostArts))
    /\ listing = CHOOSE ls \in Listings(DOMAIN store) : TRUE
    /\ \E st \in Stores(RepoKeys, MaxHostRecs, HostArts) :
           remote = [store |-> st,
                     listing |-> CHOOSE ls \in Listings(DOMAIN st) : TRUE]

NextHost ==
    \/ \E host \in Hosts : Construct(host)
    \/ \E prj \in Projects, run_id \in RunIds : RunData(prj, run_id)
    \/ GetResults
    \/ \E force_calc \in BOOLEAN : CalcPerformance(force_calc)
    \/ ComparisonReport
    \/ Delete

SpecHost == InitHost /\ [][NextHost]_vars

----------------------------------------------------------------------------
(* Setup resolution: multisim._recognize *)

\* the repository is not part of the specifications of the pure functions
InitNoRepo ==
    /\ store = <<>>
    /\ listing = <<>>
    /\ remote = NoRemote
    /\ mgr = NoMgr
    /\ rd = NoRd
    /\ ret = Ret("init", "ok")
    /\ ops = <<>>
    /\ nsave = <<>>

\* a node of a setup: a leaf (None, a Tracker, a Series or DataFrame, an
\* estimator, another object), a list or tuple, or a dict; the items of a
\* dict carry their key, in insertion order
Node(kind, id, items) == [kind |-> kind, id |-> id, items |-> items]
Leaf(kind, id) == Node(kind, id, <<>>)
None == Leaf("none", "None")
Item(key, val) == [key |-> key, val |-> val]

\* _Types and _type(obj)
TypeOf(obj) ==
    CASE obj.kind = "none" -> "unknown"
      [] obj.kind = "list" -> "list"
      [] obj.kind = "tracker" -> "tracker"
      [] obj.kind = "series" -> "signal"
      [] obj.kind = "estimator" -> "estimator"
      [] OTHER -> "unknown"

IsSignalOrGenerator(obj) == TypeOf(obj) \in {"signal", "estimator"}
IsGenerator(obj) == TypeOf(obj) = "estimator"
IsTracker(obj) == TypeOf(obj) = "tracker"

\* str(j) of a list position
RECURSIVE StrOf(_)
StrOf(j) ==
    LET d == CHOOSE c \in Digits : DigitVal(c) = j % 10
    IN  IF j < 10 THEN <<d>> ELSE StrOf(j \div 10) \o <<d>>

\* name + '/' + n
ChildNameSame(name, n) == name

ChildName(name, n) == name \o <<SL>> \o n

\* SimSetup(signals, trackers, experiment_name)
SimSetup(signals, trackers, name) ==
    [signals |-> signals, signal_type |-> TypeOf(signals),
     trackers |-> trackers, name |-> name]

RECURSIVE Recognize(_, _)
RECURSIVE RecognizeItems(_, _, _, _)

\* the loops of _recognize over the items of a dict and of a list
RecognizeItems(items, name, j, byIndex) ==
    IF j > Len(items) THEN <<>>
    ELSE Recognize(items[j].val,
                   ChildName(name, IF byIndex THEN StrOf(j - 1) ELSE items[j].key))
            \o RecognizeItems(items, name, j + 1, byIndex)

\* _recognize(setup, data, name)
Recognize(setup, name) ==
    IF setup.kind = "dict"
    THEN RecognizeItems(setup.items, name, 1, FALSE)
    ELSE IF setup.kind = "list"
    THEN IF /\ Len(setup.items) = 2
            /\ IsSignalOrGenerator(setup.items[1].val)
            /\ IsTracker(setup.items[2].val)
         THEN <<SimSetup(setup.items[1].val, setup.items[2].val, name)>>
         ELSE RecognizeItems(setup.items, name, 1, TRUE)
    ELSE IF IsTracker(setup) THEN <<SimSetup(None, setup, name)>>
    ELSE IF setup.kind = "series" THEN <<SimSetup(setup, None, name)>>
    ELSE IF IsGenerator(setup) THEN <<SimSetup(setup, None, name)>>
    ELSE <<>>

\* the setups of the specification: leaves, lists of leaves, and dicts of
\* leaves and lists
GenG == Leaf("estimator", "G")
TrkT == Leaf("tracker", "T")
SerS == Leaf("series", "S")
Leaves == {GenG, TrkT, SerS, None, Leaf("object", "O")}

SeqsUpTo(S, n) == UNION {[1..k -> S] : k \in 0..n}

ListOf(vals) == Node("list", "list", [i \in 1..Len(vals) |-> Item(<<>>, vals[i])])
Lists == {ListOf(vals) : vals \in SeqsUpTo(Leaves, MaxItems)}

DictKeys == {<<"a">>, <<"b">>}
Dicts ==
    {Node("dict", "dict", items) :
        items \in {its \in SeqsUpTo({Item(k, v) : k \in DictKeys,
                                                   v \in Leaves \cup Lists}, MaxItems) :
                      \A i, j \in 1..Len(its) : i # j => its[i].key # its[j].key}}

Setups == Leaves \cup Lists \cup Dicts
Prefixes == {<<>>, <<"P">>, <<"P", "/", "x">>}

InitResolve ==
    /\ InitNoRepo
    /\ sim \in {[phase |-> "setup", setup |-> s, name |-> n, units |-> <<>>] :
                    s \in Setups, n \in Prefixes}
    /\ edge = Idle
    /\ brk = Idle
    /\ stub = Idle

\* sims = _recognize(setup, data, project) in simulation()
Resolve ==
    /\ sim.phase = "setup"
    /\ sim' = [sim EXCEPT !.phase = "resolved",
                          !.units = Recognize(sim.setup, sim.name)]
    /\ UNCHANGED <<repoVars, edge, brk, stub>>

SpecResolve == InitResolve /\ [][Resolve]_vars

\* the mapping {"a": [G, T], "b": [S]}
MappingAB ==
    Node("dict", "dict",
         <<Item(<<"a">>, ListOf(<<GenG, TrkT>>)), Item(<<"b">>, ListOf(<<SerS>>))>>)

\* C1 as stated: resolving {"a": [G, T], "b": [S]} under prefix P yields
\* exactly two units, in insertion order: P/a pairing G with T, then P/b
\* holding S with no tracker.
C1_SeriesUnitNamedByKey ==
    (sim.phase = "resolved" /\ sim.setup = MappingAB)
        => sim.units = <<SimSetup(GenG, TrkT, sim.name \o <<"/", "a">>),
                         SimSetup(SerS, None, sim.name \o <<"/", "b">>)>>

\* C1, amended: resolving {"a": [G, T], "b": [S]} under prefix P yields
\* exactly two units, in insertion order: P/a pairing G with T, then P/b/0
\* (the series is element 0 of the sequence [S]) holding S with no tracker.
C1_SeriesUnitNamedByIndex ==
    (sim.phase = "resolved" /\ sim.setup = MappingAB)
        => sim.units = <<SimSetup(GenG, TrkT, sim.name \o <<"/", "a">>),
                         SimSetup(SerS, None, sim.name \o <<"/", "b", "/", "0">>)>>

\* the mapping was resolved under the prefix P
C1_Witness ==
    /\ sim.phase = "resolved"
    /\ sim.setup = MappingAB
    /\ sim.name = <<"P">>
    /\ Len(sim.units) = 2

----------------------------------------------------------------------------
(* Edge detectors: generators.crossup and generators.crossdown *)

\* a sample: a number or NaN; every comparison with NaN is false
Num(v) == [nan |-> FALSE, v |-> v]
NaN == [nan |-> TRUE, v |-> 0]
Gt(a, b) == ~a.nan /\ ~b.nan /\ a.v > b.v
Lt(a, b) == ~a.nan /\ ~b.nan /\ a.v < b.v
Ge(a, b) == ~a.nan /\ ~b.nan /\ a.v >= b.v
Le(a, b) == ~a.nan /\ ~b.nan /\ a.v <= b.v

\* Series.shift(1): each sample moves to the next timestamp, NaN comes first
ShiftZeroFilled(x) == [i \in 1..Len(x) |-> IF i = 1 THEN Num(0) ELSE x[i - 1]]

Shift(x) == [i \in 1..Len(x) |-> IF i = 1 THEN NaN ELSE x[i - 1]]

\* a threshold: a float, or a Series on the index of x
Scalar(c) == [series |-> FALSE, c |-> c, s |-> <<>>]
Series(s) == [series |-> TRUE, c |-> NaN, s |-> s]
At(t, i) == IF t.series THEN t.s[i] ELSE t.c

\* t1 = t.shift(1) if isinstance(t, pd.Series) else t
Shifted(t) == IF t.series THEN Series(Shift(t.s)) ELSE t

\* the timestamps of x are its positions 1..Len(x)
CrossUp(x, t) ==
    {i \in 1..Len(x) : Gt(x[i], At(t, i)) /\ Le(Shift(x)[i], At(Shifted(t), i))}

CrossDown(x, t) ==
    {i \in 1..Len(x) : Lt(x[i], At(t, i)) /\ Ge(Shift(x)[i], At(Shifted(t), i))}

Samples == {Num(0), Num(1), Num(2), NaN}

InitEdge ==
    /\ InitNoRepo
    /\ \E n \in 0..MaxLen :
          edge \in {[phase |-> "series", x |-> x, t |-> t, up |-> {}, down |-> {}] :
                      x \in [1..n -> Samples],
                      t \in {Scalar(c) : c \in Samples}
                              \cup {Series(ts) : ts \in [1..n -> Samples]}}
    /\ sim = Idle
    /\ brk = Idle
    /\ stub = Idle

Cross ==
    /\ edge.phase = "series"
    /\ edge' = [edge EXCEPT !.phase = "crossed",
                            !.up = CrossUp(edge.x, edge.t),
                            !.down = CrossDown(edge.x, edge.t)]
    /\ UNCHANGED <<repoVars, sim, brk, stub>>

SpecEdge == InitEdge /\ [][Cross]_vars

\* C8: for every series and every threshold (a constant, or a series on the
\* same index) the timestamps of crossup and of crossdown are disjoint, and
\* neither holds the first timestamp of the series.
C8_CrossingsDisjointNotFirst ==
    edge.phase = "crossed"
        => /\ edge.up \cap edge.down = {}
           /\ 1 \notin edge.up
           /\ 1 \notin edge.down

\* a series that crosses a series threshold upward and later downward
C8_Witness ==
    /\ edge.phase = "crossed"
    /\ edge.t.series
    /\ edge.up # {}
    /\ edge.down # {}

----------------------------------------------------------------------------
(* RangeBreakoutDetector._ohlc_breaks *)

\* the bars are BarStep apart, bar i at i * BarStep; a close event is stamped
\* PreCloseTimeShift after its bar's timestamp, before the next bar
BarStep == 4
TimeOf(i) == i * BarStep
PreCloseTimeShift == BarStep - 1

Column(X, name) == [i \in 1..Len(X) |-> X[i][name]]
Plus(a, c) == IF a.nan THEN NaN ELSE Num(a.v + c)
Minus(a, c) == IF a.nan THEN NaN ELSE Num(a.v - c)

\* U, B = X.RangeTop + self.threshold, X.RangeBot - self.threshold
BandU(X, threshold) == [i \in 1..Len(X) |-> Plus(X[i].RangeTop, threshold)]
BandB(X, threshold) == [i \in 1..Len(X) |-> Minus(X[i].RangeBot, threshold)]

\* b1_bU = high.shift(1) <= U.shift(1); b1_aL = low.shift(1) >= B.shift(1)
B1bU(X, th) ==
    {i \in 1..Len(X) : Le(Shift(Column(X, "high"))[i], Shift(BandU(X, th))[i])}
B1aL(X, th) ==
    {i \in 1..Len(X) : Ge(Shift(Column(X, "low"))[i], Shift(BandB(X, th))[i])}

\* l_c = (b1_bU | (open <= U)) & (close > U)
LC(X, th) ==
    {i \in 1..Len(X) :
        /\ i \in B1bU(X, th) \/ Le(X[i].open, BandU(X, th)[i])
        /\ Gt(X[i].close, BandU(X, th)[i])}

\* s_c = (b1_aL | (open >= B)) & (close < B)
SC(X, th) ==
    {i \in 1..Len(X) :
        /\ i \in B1aL(X, th) \/ Ge(X[i].open, BandB(X, th)[i])
        /\ Lt(X[i].close, BandB(X, th)[i])}

\* l_o = (b1_bU & (open > U)); s_o = (b1_aL & (open < B))
LO(X, th) == {i \in B1bU(X, th) : Gt(X[i].open, BandU(X, th)[i])}
SO(X, th) == {i \in B1aL(X, th) : Lt(X[i].open, BandB(X, th)[i])}

\* X[(l_c & ~l_o)]: the bars of the break-on-close stream
OnCloseAll(c, o) == c

OnCloseOnly(c, o) == c \ o

\* pd.Series(v, index): one event per bar, stamped at its time plus shift
Events(bars, v, shift) == {[t |-> TimeOf(i) + shift, v |-> v, bar |-> i] : i \in bars}

\* the four streams of _ohlc_breaks, and srows of them: all their events
OhlcBreaks(X, th) ==
    LET lo == LO(X, th)
        lc == OnCloseOnly(LC(X, th), lo)
        so == SO(X, th)
        sc == OnCloseOnly(SC(X, th), so)
    IN  [lo |-> lo, lc |-> lc, so |-> so, sc |-> sc,
         events |-> Events(lo, 1, 0) \cup Events(lc, 1, PreCloseTimeShift)
                      \cup Events(so, -1, 0) \cup Events(sc, -1, PreCloseTimeShift)]

\* bars with low <= open, close <= high, prices 0..2; a band of the rolling
\* range, NaN until the range's window is full
Prices == {0, 1, 2}
Bands == {<<Num(1), Num(1)>>, <<Num(2), Num(1)>>, <<NaN, NaN>>}
Bars ==
    {[open |-> Num(o), high |-> Num(h), low |-> Num(l), close |-> Num(c),
      RangeTop |-> b[1], RangeBot |-> b[2]] :
        o \in Prices, h \in Prices, l \in Prices, c \in Prices, b \in Bands}
ValidBars ==
    {b \in Bars : /\ b.low.v <= b.open.v /\ b.open.v <= b.high.v
                  /\ b.low.v <= b.close.v /\ b.close.v <= b.high.v}

InitBreak ==
    /\ InitNoRepo
    /\ \E n \in 1..MaxBars :
          brk \in {[phase |-> "frame", X |-> X, threshold |-> 0,
                    out |-> [lo |-> {}, lc |-> {}, so |-> {}, sc |-> {},
                             events |-> {}]] :
                      X \in [1..n -> ValidBars]}
    /\ sim = Idle
    /\ edge = Idle
    /\ stub = Idle

\* predict(X) on a frame with the OHLC columns
Predict ==
    /\ brk.phase = "frame"
    /\ brk' = [brk EXCEPT !.phase = "predicted",
                          !.out = OhlcBreaks(brk.X, brk.threshold)]
    /\ UNCHANGED <<repoVars, sim, edge, stub>>

SpecBreak == InitBreak /\ [][Predict]_vars

\* bar k opens at or below the top band and closes above it, the previous
\* high being at or below the top band (the previous bar's, or bar k's)
CrossesAbove(X, th, k) ==
    /\ k > 1
    /\ \/ Le(X[k - 1].high, BandU(X, th)[k - 1])
       \/ Le(X[k - 1].high, BandU(X, th)[k])
    /\ Le(X[k].open, BandU(X, th)[k])
    /\ Gt(X[k].close, BandU(X, th)[k])

\* C9: in OHLC mode, for every bar k (not the first) with previous high <=
\* top band, open <= top band and close > top band, exactly one +1 is emitted
\* for bar k, stamped at bar k's timestamp plus the pre-close shift, and bar
\* k is not in the break-on-open stream; and no bar is in both the
\* break-on-open and the break-on-close stream of one direction.
C9_BreakOnCloseOnce ==
    brk.phase = "predicted"
        => /\ \A k \in 1..Len(brk.X) :
                 CrossesAbove(brk.X, brk.threshold, k)
                     => /\ {e \in brk.out.events : e.v = 1 /\ e.bar = k}
                             = {[t |-> TimeOf(k) + PreCloseTimeShift,
                                 v |-> 1, bar |-> k]}
                        /\ {e \in brk.out.events :
                                e.v = 1 /\ e.t = TimeOf(k) + PreCloseTimeShift}
                             = {[t |-> TimeOf(k) + PreCloseTimeShift,
                                 v |-> 1, bar |-> k]}
                        /\ k \notin brk.out.lo
           /\ brk.out.lo \cap brk.out.lc = {}
           /\ brk.out.so \cap brk.out.sc = {}

\* bar 2 breaks on close after a first bar that stayed within the band
C9_Witness ==
    /\ brk.phase = "predicted"
    /\ Len(brk.X) >= 2
    /\ CrossesAbove(brk.X, brk.threshold, 2)
    /\ Le(brk.X[1].high, BandU(brk.X, brk.threshold)[1])
    /\ 2 \in brk.out.lc

----------------------------------------------------------------------------
(* Stub signals: multisim.start_stop_sigs and SimSetup.get_signals *)

\* the market data: a dict of frames, in insertion order; a frame of n rows
\* has the timestamps IndexAt(0) .. IndexAt(n - 1), here its positions
Parts == 100
IndexAt(i) == i

\* start and stop as given: None, a date, or (stop only) a time delta
NoTime == [kind |-> "none", v |-> 0]
Date(v) == [kind |-> "date", v |-> v]
Delta(v) == [kind |-> "delta", v |-> v]

\* stop = str(pd.Timestamp(start) + pd.Timedelta(stop)), kept when the sum
\* raises (stop is a date, not a delta)
StopGiven(start, stop) ==
    IF stop.kind = "delta" /\ start.kind = "date"
    THEN Date(start.v + stop.v)
    ELSE stop

\* len(d[start:stop]): the rows whose timestamp lies in [start, stop]
WindowLen(n, lo, hi) ==
    Cardinality({i \in 0..(n - 1) : lo <= IndexAt(i) /\ IndexAt(i) <= hi})

StubOut(status, kind, stamps) == [status |-> status, kind |-> kind, stamps |-> stamps]

\* start_stop_sigs(data, start, stop): only the first frame is looked at
StartStopSigs(data, start, stop0) ==
    LET stop == StopGiven(start, stop0)
    IN  IF Len(data) = 0 THEN StubOut("ok", "None", {})
        ELSE
        LET n == data[1]
        IN  IF n = 0 /\ (start.kind = "none" \/ stop.kind = "none")
            THEN StubOut("IndexError", "None", {})
            ELSE
            LET lo == IF start.kind = "none" THEN IndexAt(0) ELSE start.v
                hi == IF stop.kind = "none" THEN IndexAt(n - 1) ELSE stop.v
                dx == WindowLen(n, lo, hi) \div Parts
            IN  IF \E j \in 0..Parts : j * dx >= n
                THEN StubOut("IndexError", "None", {})
                ELSE StubOut("ok", "stub", {IndexAt(j * dx) : j \in 0..Parts})

\* get_signals(data, start, stop) of a unit
GetSignals(signals, data, start, stop) ==
    IF signals.kind = "none" \/ TypeOf(signals) = "unknown"
    THEN StartStopSigs(data, start, stop)
    ELSE IF TypeOf(signals) = "estimator"
    THEN StubOut("ok", "predicted", {})
    ELSE IF start.kind # "none" /\ stop.kind # "none"
    THEN StubOut("ok", "slice", {})
    ELSE StubOut("ok", "series", {})

Starts == {NoTime, Date(0), Date(3), Date(120)}
Stops == {NoTime, Date(49), Date(99), Date(204), Delta(40), Delta(150)}

InitStub ==
    /\ InitNoRepo
    /\ stub \in {[phase |-> "unit", signals |-> sg, data |-> d, start |-> a,
                   stop |-> b, out |-> StubOut("none", "None", {})] :
                    sg \in {None, Leaf("object", "O"), SerS, GenG},
                    d \in {<<>>} \cup {<<n>> : n \in 0..MaxRows}
                             \cup {<<n, 5>> : n \in 0..MaxRows},
                    a \in Starts,
                    b \in Stops}
    /\ stub.stop.kind = "delta" => stub.start.kind = "date"
    /\ sim = Idle
    /\ edge = Idle
    /\ brk = Idle

\* s.get_signals(data, start, stop) in _proc_run
ProcRun ==
    /\ stub.phase = "unit"
    /\ stub' = [stub EXCEPT !.phase = "signals",
                            !.out = GetSignals(stub.signals, stub.data,
                                               stub.start, stub.stop)]
    /\ UNCHANGED <<repoVars, sim, edge, brk>>

SpecStub == InitStub /\ [][ProcRun]_vars

\* the window [start, stop] of the data: the first and the last timestamp
\* stand in for a start or stop that is not given
WindowLo == IF stub.start.kind = "none" THEN IndexAt(0) ELSE stub.start.v
WindowHi ==
    IF stub.stop.kind = "none" THEN IndexAt(stub.data[1] - 1)
    ELSE IF stub.stop.kind = "delta" THEN stub.start.v + stub.stop.v
    ELSE stub.stop.v

EvenlySpaced(stamps) ==
    \E first \in stamps \cup {0} : \E step \in 0..MaxRows + 1 :
        stamps = {first + j * step : j \in 0..(Cardinality(stamps) - 1)}

\* C10: for a unit with no signal source the stub series of the market data
\* holds exactly 100 timestamps, evenly spaced by position, all of them
\* timestamps of the data within [start, stop], for a window of any length.
C10_StubHasHundredInWindow ==
    (stub.phase = "signals" /\ stub.signals.kind = "none"
        /\ Len(stub.data) > 0 /\ stub.data[1] > 0)
        => /\ stub.out.status = "ok"
           /\ stub.out.kind = "stub"
           /\ Cardinality(stub.out.stamps) = Parts
           /\ EvenlySpaced(stub.out.stamps)
           /\ \A t \in stub.out.stamps :
                 /\ t \in {IndexAt(i) : i \in 0..(stub.data[1] - 1)}
                 /\ WindowLo <= t
                 /\ t <= WindowHi

\* what the code does: with dx the whole hundredths of the window's length,
\* the stub holds the data's timestamps at the positions 0, dx, .., 100 * dx,
\* counted from the first row of the data: one timestamp when the window
\* has fewer than 100 rows, 101 otherwise, and an IndexError when the data
\* has no row at position 100 * dx
StubAsCoded ==
    (stub.phase = "signals" /\ stub.signals.kind = "none"
        /\ Len(stub.data) > 0 /\ stub.data[1] > 0)
        => LET n == stub.data[1]
               dx == WindowLen(n, WindowLo, WindowHi) \div Parts
           IN  IF Parts * dx >= n
               THEN stub.out.status = "IndexError"
               ELSE /\ stub.out.status = "ok"
                    /\ stub.out.stamps = {IndexAt(j * dx) : j \in 0..Parts}
                    /\ Cardinality(stub.out.stamps) = IF dx = 0 THEN 1 ELSE Parts + 1

----------------------------------------------------------------------------
(* Properties of the manager's lookups and of delete() *)

Range(f) == {f[i] : i \in DOMAIN f}
Paths(log, name) == {log[i].path : i \in {j \in 1..Len(log) : log[j].op = name}}
RecPaths(recs) == [i \in 1..Len(recs) |-> recs[i].val.path]
Loads(log) == SelectSeq(log, LAMBDA o : o.op = "load")

\* C2: runs_for(prj) with a project that is absent from the index fails
\* (a not-found error) and leaves the index as it was, so that projects()
\* lists the same projects after the call as before it.
C2_RunsForAbsentIsPureFailure ==
    [][\A prj \in LookupArgs :
          (RunsFor(prj) /\ ~HasKey(mgr.p, prj))
              => (ret'.status # "ok" /\ Keys(mgr'.p) = Keys(mgr.p))]_vars

\* C3: once delete() was called on the run data that the manager returned
\* for (prj, run_id), runs_for(prj) of that manager does not list run_id.
C3_DeletedRunNotListed ==
    (mgr.made /\ rd.made /\ rd.isList)
        => rd.run_id \notin Range(Keys(Get(RunsForIndex(mgr.p, rd.prj), rd.prj)))

----------------------------------------------------------------------------
(* Properties of calc_performance *)

\* C5: when the computation of one record's performance fails during
\* calc_performance over a run, the call still returns normally, every
\* record of the run (the later ones included) is loaded and processed, no
\* save is issued for the failed record and its stored artifact is as before.
C5_FailureDoesNotAbortBatch ==
    [][\A force_calc \in BOOLEAN :
          (CalcPerformance(force_calc) /\ ~rd.isList)
              => /\ ret'.status = "ok"
                 /\ RecPaths(rd.p) = [i \in 1..Len(Loads(ops')) |-> Loads(ops')[i].path]
                 /\ \A path \in Paths(ops', "exc") :
                        /\ path \notin Paths(ops', "save")
                        /\ ZLoad(store', path) = ZLoad(store, path)
                 /\ \A path \in Range(RecPaths(rd.p)) \ Paths(ops', "exc") :
                        LET sd == ZLoad(store, path)
                        IN  (~sd.null /\ (force_calc \/ ~sd.performance.has))
                                => ZLoad(store', path).performance.has]_vars

\* a failed record was followed by a record that was computed and saved
C5_Witness ==
    /\ ret.op = "calc_performance"
    /\ ret.status = "ok"
    /\ \E i, j \in 1..Len(ops) :
          i < j /\ ops[i].op = "exc" /\ ops[j].op = "save"

\* C6 as stated: without force_calc each record is saved at most once over
\* any sequence of calls, and a call with force_calc re-saves every record
\* whose artifact is not null.
C6_ForcedSavesEveryRecord ==
    /\ \A k \in DOMAIN nsave : nsave[k] <= 1
    /\ (ret.op = "calc_performance" /\ ret.status = "ok" /\ ret.force)
          => \A path \in Range(RecPaths(rd.p)) :
                ~ZLoad(store, path).null => path \in Paths(ops, "save")

\* C6, amended: without force_calc each record is computed and saved at most
\* once over any sequence of calls, a record whose stored artifact carries a
\* summary being neither recomputed nor re-saved; a call with force_calc
\* recomputes every record whose artifact is not null and re-saves it unless
\* its computation fails.
C6_ComputedOnceUnlessForced ==
    /\ [](\A k \in DOMAIN nsave : nsave[k] <= 1)
    /\ [][\A force_calc \in BOOLEAN :
             (CalcPerformance(force_calc) /\ ~rd.isList)
                 => \A path \in Range(RecPaths(rd.p)) :
                       LET sd == ZLoad(store, path)
                       IN  /\ (~force_calc /\ sd.performance.has)
                                => /\ path \notin Paths(ops', "perf")
                                   /\ path \notin Paths(ops', "save")
                           /\ (force_calc /\ ~sd.null)
                                => /\ path \in Paths(ops', "perf")
                                   /\ path \in Paths(ops', "save")
                                          <=> ~sd.result.raises]_vars

\* a record saved by an earlier call is loaded and skipped by a later call
\* without force_calc
C6_Witness ==
    /\ ret.op = "calc_performance"
    /\ ret.status = "ok"
    /\ ~ret.force
    /\ \E k \in DOMAIN nsave :
          /\ nsave[k] = 1
          /\ k \in Paths(ops, "load")
          /\ k \notin Paths(ops, "save")

----------------------------------------------------------------------------
(* Properties of comparison_report *)

HasSummary(path) ==
    ~ZLoad(store, path).null /\ ZLoad(store, path).performance.has

\* every row is the summary of a record that has one, and the rows are in
\* non-increasing sharpe order
ReportRowsOk ==
    /\ \A i \in 1..Len(ret.rows) :
          \E path \in Range(RecPaths(rd.p)) :
              /\ HasSummary(path)
              /\ ZLoad(store, path).task = ret.rows[i].key
              /\ ZLoad(store, path).performance.sharpe = ret.rows[i].val.sharpe
    /\ \A path \in Range(RecPaths(rd.p)) :
          HasSummary(path)
              => \E i \in 1..Len(ret.rows) : ret.rows[i].key = ZLoad(store, path).task
    /\ \A i, j \in 1..Len(ret.rows) :
          i < j => ret.rows[i].val.sharpe >= ret.rows[j].val.sharpe

\* C7: comparison_report() over any run returns a report that excludes every
\* record whose artifact is null or has no performance summary, with rows in
\* non-increasing sharpe order; over a run in which no record has a summary
\* it returns the empty report.
C7_ReportExcludesAndSorts ==
    (ret.op = "comparison_report" /\ ~rd.isList)
        => /\ ret.status = "ok"
           /\ ReportRowsOk

\* what the code does: the report of a run with a summary is as C7 says, and
\* the run without any summary raises KeyError
ReportOkUnlessEmpty ==
    (ret.op = "comparison_report" /\ ~rd.isList)
        => IF \E path \in Range(RecPaths(rd.p)) : HasSummary(path)
           THEN ret.status = "ok" /\ ReportRowsOk
           ELSE ret.status = "KeyError"

----------------------------------------------------------------------------
(* Properties of the index construction *)

\* where the index holds a record with this storage path
Places(idx, path) ==
    {<<i, j, h>> \in (1..Len(idx)) \X (1..MaxKeys + 1) \X (1..MaxKeys + 1) :
        /\ j <= Len(idx[i].val)
        /\ h <= Len(idx[i].val[j].val)
        /\ idx[i].val[j].val[h].val.path = path}

\* the record filed under project p, run r and sequence index k, if any
Filed(idx, p, r, k) ==
    IF HasKey(idx, p) /\ HasKey(Get(idx, p), r) /\ HasKey(Get(Get(idx, p), r), k)
    THEN {Get(Get(Get(idx, p), r), k)}
    ELSE {}

Ascending(idx) ==
    \A i \in 1..Len(idx) : \A j \in 1..Len(idx[i].val) :
        LET ra == idx[i].val[j].val
        IN  \A h \in 1..(Len(ra) - 1) : ra[h].key < ra[h + 1].key

ListedAt(key) == CHOOSE i \in 1..Len(listing) : listing[i] = key

\* C4 as stated: constructing the manager over stored keys of the form
\* runs/{project}/{run_id}/{sequence_index}.{symbol} yields an index that
\* holds every key as exactly one record, filed under its project and run_id
\* with its sequence_index, symbol and the full key as path, each run's
\* records ascending in sequence_index.
C4_DocumentedKeysIndexed ==
    (ret.op = "construct" /\ DOMAIN store \subseteq DocKeys)
        => /\ ret.status = "ok"
           /\ mgr.made
           /\ \A p \in Projects, r \in RunIds, t \in IndexTasks :
                 LET key == DocPath(p, r, t[1], t[2])
                 IN  key \in DOMAIN store
                       => /\ Cardinality(Places(mgr.p, key)) = 1
                          /\ Filed(mgr.p, p, r, IntOf(t[1]))
                                = {[runid |-> r, symbol |-> t[2], path |-> key]}
           /\ Ascending(mgr.p)

\* a key listed later with the same project, run_id and sequence index
Shadowed(p, r, t) ==
    \E t2 \in IndexTasks :
        LET key == LoadPath(p, TaskId(t[1], t[2]), r)
            key2 == LoadPath(p, TaskId(t2[1], t2[2]), r)
        IN  /\ key2 \in DOMAIN store
            /\ IntOf(t2[1]) = IntOf(t[1])
            /\ ListedAt(key2) > ListedAt(key)

\* C4, amended: constructing the manager over stored keys of the form
\* runs/{project}/{task}.{sequence_index}.{symbol}/{run_id} yields an index
\* that holds every key as exactly one record, filed under its project and
\* run_id with its sequence_index, symbol and the full key as path, each
\* run's records ascending in sequence_index; of several keys with the same
\* project, run_id and integer sequence_index only the last listed is held.
C4_TaskKeysIndexed ==
    (ret.op = "construct" /\ DOMAIN store \subseteq CodeKeys)
        => /\ ret.status = "ok"
           /\ mgr.made
           /\ \A p \in Projects, r \in RunIds, t \in IndexTasks :
                 LET key == LoadPath(p, TaskId(t[1], t[2]), r)
                 IN  key \in DOMAIN store
                       => IF Shadowed(p, r, t)
                          THEN Places(mgr.p, key) = {}
                          ELSE /\ Cardinality(Places(mgr.p, key)) = 1
                               /\ Filed(mgr.p, p, r, IntOf(t[1]))
                                     = {[runid |-> r, symbol |-> t[2], path |-> key]}
           /\ \A i \in 1..Len(mgr.p) : \A j \in 1..Len(mgr.p[i].val) :
                 \A h \in 1..Len(mgr.p[i].val[j].val) :
                     mgr.p[i].val[j].val[h].val.path \in DOMAIN store
           /\ Ascending(mgr.p)

\* two keys of one run, listed with the larger sequence index first, are
\* both indexed
C4_Witness ==
    /\ ret.op = "construct"
    /\ ret.status = "ok"
    /\ DOMAIN store \subseteq CodeKeys
    /\ Len(listing) >= 2
    /\ \E i \in 1..Len(mgr.p) : \E j \in 1..Len(mgr.p[i].val) :
          LET ra == mgr.p[i].val[j].val
          IN  /\ Len(ra) = 2
              /\ ra[2].val.path = listing[1]
              /\ ra[1].val.path = listing[2]

----------------------------------------------------------------------------
(* Properties of the storage host *)

StorageOps == {"load", "save", "del"}
RunDataCalls == {"results", "calc_performance", "comparison_report", "delete"}

\* C11: a run-data object obtained through run_data() of a manager that was
\* constructed for host H issues every storage operation (the loads of
\* results, calc_performance and comparison_report, the saves of
\* calc_performance, the deletes of delete) against host H, the host whose
\* listing built the index.
C11_RunDataUsesManagersHost ==
    (mgr.made /\ rd.made /\ ret.op \in RunDataCalls)
        => \A i \in 1..Len(ops) :
               ops[i].op \in StorageOps => ops[i].host = mgr.host

\* what the code does: the storage operations of the run data go to the
\* default host, whatever the host of the manager
RunDataUsesDefaultHost ==
    (mgr.made /\ rd.made /\ ret.op \in RunDataCalls)
        => \A i \in 1..Len(ops) :
               ops[i].op \in StorageOps => ops[i].host = HostNone

\* a manager of the named host whose run data deleted from the default host
DeletedOnOtherHost ==
    /\ mgr.made /\ mgr.host = HostH
    /\ ret.op = "delete" /\ ret.status = "ok"
    /\ \E i \in 1..Len(ops) : ops[i].op = "del" /\ ops[i].host = HostNone

====
